---- MODULE Spec2Model ----
(***************************************************************************)
(* Model of anytype.Object (src/anytype/object.py) and of                  *)
(* sanitize_property_name (src/anytype/utils.py).                          *)
(*                                                                         *)
(* A Python str is a sequence of one-character strings where the code      *)
(* looks at its characters (property labels, icon strings as code points)  *)
(* and a TLA+ string where the code only stores, compares or hashes it     *)
(* (attribute names, keys, space identifiers).  Spelling relates the two   *)
(* for the names the object model uses.                                    *)
(***************************************************************************)
EXTENDS Integers, Sequences, FiniteSets, TLC

VARIABLES objs, props, icons, last, label, sanitized, resanitized

vars == <<objs, props, icons, last, label, sanitized, resanitized>>

(***************************************************************************)
(* Bounds of the model.                                                    *)
(***************************************************************************)
MaxLabelLen == 3
MaxIconLen == 2
MaxCalls == 2
MaxDepth == 6

RECURSIVE SeqsUpTo(_, _)
SeqsUpTo(S, n) ==
    IF n = 0 THEN { <<>> }
    ELSE LET shorter == SeqsUpTo(S, n - 1)
         IN  shorter \cup { Append(s, c) : s \in shorter, c \in S }

(***************************************************************************)
(* utils.py: sanitize_property_name                                        *)
(***************************************************************************)
UpperCase ==
    << "A", "B", "C", "D", "E", "F", "G", "H", "I", "J", "K", "L", "M",
       "N", "O", "P", "Q", "R", "S", "T", "U", "V", "W", "X", "Y", "Z", "É" >>

LowerCase ==
    << "a", "b", "c", "d", "e", "f", "g", "h", "i", "j", "k", "l", "m",
       "n", "o", "p", "q", "r", "s", "t", "u", "v", "w", "x", "y", "z", "é" >>

Digits == { "0", "1", "2", "3", "4", "5", "6", "7", "8", "9" }

\* the characters the pattern [^a-z0-9_] does not match ("é" is outside a-z)
WordChars == { LowerCase[i] : i \in 1..26 } \cup Digits \cup { "_" }

\* keyword.kwlist of the interpreter (hard keywords only)
kwlist ==
    { <<"F", "a", "l", "s", "e">>,
      <<"N", "o", "n", "e">>,
      <<"T", "r", "u", "e">>,
      <<"a", "n", "d">>,
      <<"a", "s">>,
      <<"a", "s", "s", "e", "r", "t">>,
      <<"a", "s", "y", "n", "c">>,
      <<"a", "w", "a", "i", "t">>,
      <<"b", "r", "e", "a", "k">>,
      <<"c", "l", "a", "s", "s">>,
      <<"c", "o", "n", "t", "i", "n", "u", "e">>,
      <<"d", "e", "f">>,
      <<"d", "e", "l">>,
      <<"e", "l", "i", "f">>,
      <<"e", "l", "s", "e">>,
      <<"e", "x", "c", "e", "p", "t">>,
      <<"f", "i", "n", "a", "l", "l", "y">>,
      <<"f", "o", "r">>,
      <<"f", "r", "o", "m">>,
      <<"g", "l", "o", "b", "a", "l">>,
      <<"i", "f">>,
      <<"i", "m", "p", "o", "r", "t">>,
      <<"i", "n">>,
      <<"i", "s">>,
      <<"l", "a", "m", "b", "d", "a">>,
      <<"n", "o", "n", "l", "o", "c", "a", "l">>,
      <<"n", "o", "t">>,
      <<"o", "r">>,
      <<"p", "a", "s", "s">>,
      <<"r", "a", "i", "s", "e">>,
      <<"r", "e", "t", "u", "r", "n">>,
      <<"t", "r", "y">>,
      <<"w", "h", "i", "l", "e">>,
      <<"w", "i", "t", "h">>,
      <<"y", "i", "e", "l", "d">> }

\* str.lower(), one character
lower_char(c) ==
    IF \E i \in DOMAIN UpperCase : UpperCase[i] = c
    THEN LowerCase[CHOOSE i \in DOMAIN UpperCase : UpperCase[i] = c]
    ELSE c

\* name.lower()
str_lower(name) == [i \in 1..Len(name) |-> lower_char(name[i])]

\* re.sub(r'[^a-z0-9_]', '_', s)
re_sub(s) == [i \in 1..Len(s) |-> IF s[i] \in WordChars THEN s[i] ELSE "_"]

\* keyword.iskeyword(s)
iskeyword(s) == s \in kwlist

\* str.isdigit() of one character that re_sub left in place
isdigit(c) == c \in Digits

\* a slip: the test is made on the label, not on its lower-case form
sanitize_tests_raw_label(name) ==
    LET clean == re_sub(str_lower(name))
    IN  IF name # <<>> /\ (isdigit(name[1]) \/ iskeyword(name))
        THEN <<"_">> \o clean
        ELSE clean

\* a slip: the leading-digit test is forgotten
sanitize_without_digit_test(name) ==
    LET clean == re_sub(str_lower(name))
    IN  IF clean # <<>> /\ iskeyword(clean)
        THEN <<"_">> \o clean
        ELSE clean

sanitize_property_name(name) ==
    LET clean == re_sub(str_lower(name))
    IN  IF clean # <<>> /\ (isdigit(clean[1]) \/ iskeyword(clean))
        THEN <<"_">> \o clean
        ELSE clean

(***************************************************************************)
(* Names.  Attribute names, labels and keys are TLA+ strings; Spelling     *)
(* gives the characters of the ones sanitize_property_name is applied to   *)
(* or can return.                                                          *)
(***************************************************************************)
Spelling ==
    [ s \in { "DOI", "doi", "Body", "body", "Name", "name", "Icon", "icon",
              "Release Year", "release_year", "Type", "type" } |->
        CASE s = "DOI"          -> <<"D", "O", "I">>
          [] s = "doi"          -> <<"d", "o", "i">>
          [] s = "Body"         -> <<"B", "o", "d", "y">>
          [] s = "body"         -> <<"b", "o", "d", "y">>
          [] s = "Name"         -> <<"N", "a", "m", "e">>
          [] s = "name"         -> <<"n", "a", "m", "e">>
          [] s = "Icon"         -> <<"I", "c", "o", "n">>
          [] s = "icon"         -> <<"i", "c", "o", "n">>
          [] s = "Release Year" ->
                <<"R", "e", "l", "e", "a", "s", "e", " ", "Y", "e", "a", "r">>
          [] s = "release_year" ->
                <<"r", "e", "l", "e", "a", "s", "e", "_", "y", "e", "a", "r">>
          [] s = "Type"         -> <<"T", "y", "p", "e">>
          [] s = "type"         -> <<"t", "y", "p", "e">> ]

Chars(s) == Spelling[s]

Str(cs) == CHOOSE s \in DOMAIN Spelling : Spelling[s] = cs

(***************************************************************************)
(* Python values.                                                          *)
(* A str that the code concatenates (body) is its sequence of pieces.      *)
(***************************************************************************)
StrV(pieces) == [t |-> "str", s |-> pieces]

NoneV == [t |-> "None"]

IntV(n) == [t |-> "int", n |-> n]

ListV == [t |-> "list"]

MethodV(name) == [t |-> "method", name |-> name]

\* a dict, as the function from its keys to its values
DictV(d) == [t |-> "dict", d |-> d]

\* an Icon instance, by its place in the heap of icons
IconV(i) == [t |-> "Icon", icon |-> i]

\* a Type instance
TypeV(name, key, space, template, properties) ==
    [t |-> "Type", name |-> name, key |-> key, space_id |-> space,
     template_id |-> template, properties |-> properties]

Put(d, k, v) == [x \in DOMAIN d \cup {k} |-> IF x = k THEN v ELSE d[x]]

\* a | b of two dicts: the right operand's entries win
dict_or_left_wins(a, b) ==
    [k \in DOMAIN a \cup DOMAIN b |-> IF k \in DOMAIN a THEN a[k] ELSE b[k]]

dict_or(a, b) ==
    [k \in DOMAIN a \cup DOMAIN b |-> IF k \in DOMAIN b THEN b[k] ELSE a[k]]

(***************************************************************************)
(* utils.py: PropertyFormat and _ANYTYPE_SYSTEM_RELATIONS                  *)
(***************************************************************************)
PropertyFormat ==
    { "text", "number", "select", "multi_select", "date", "files",
      "checkbox", "url", "email", "phone", "objects" }

ANYTYPE_SYSTEM_RELATIONS ==
    { "id", "name", "description", "snippet", "iconEmoji", "iconImage",
      "type", "layout", "layoutAlign", "coverId", "coverScale", "coverType",
      "coverX", "coverY", "createdDate", "creator", "lastModifiedDate",
      "lastModifiedBy", "lastOpenedDate", "featuredRelations", "isFavorite",
      "workspaceId", "spaceId", "links", "internalFlags", "restrictions",
      "addedDate", "source", "sourceObject", "setOf", "relationFormat",
      "relationKey", "relationReadonlyValue", "relationDefaultValue",
      "relationMaxCount", "relationOptionColor", "relationFormatObjectTypes",
      "isReadonly", "isDeleted", "isHidden", "spaceShareableStatus",
      "isAclShared", "isHiddenDiscovery", "done", "isArchived",
      "templateIsBundled", "smartblockTypes", "targetObjectType",
      "recommendedLayout", "fileExt", "fileMimeType", "sizeInBytes",
      "oldAnytypeID", "spaceDashboardId", "recommendedRelations",
      "iconOption", "widthInPixels", "heightInPixels", "fileExt",
      "sizeInBytes", "sourceFilePath", "fileSyncStatus", "defaultTemplateId",
      "uniqueKey", "backlinks", "profileOwnerIdentity", "fileBackupStatus",
      "fileId", "fileIndexingStatus", "origin", "revision", "imageKind",
      "importType", "spaceAccessType", "spaceInviteFileCid",
      "spaceInviteFileKey", "readersLimit", "writersLimit",
      "sharedSpacesLimit", "participantPermissions", "participantStatus",
      "latestAclHeadId", "identity", "globalName", "syncDate", "syncStatus",
      "syncError", "lastUsedDate", "mentions", "chatId", "hasChat",
      "timestamp", "iconName", "recommendedFeaturedRelations",
      "recommendedHiddenRelations", "recommendedFileRelations",
      "layoutWidth", "defaultViewType", "defaultTypeId", "resolvedLayout",
      "pluralName" }

(***************************************************************************)
(* The collaborators the object is given: Property instances (a heap;      *)
(* props[pid] is the holder of the format the property declares, the only  *)
(* one the object reads or writes) and the Type instances that own them.   *)
(***************************************************************************)
PropDecl ==
    << [name |-> "DOI",          key |-> "doi",          format |-> "url"],
       [name |-> "doi",          key |-> "doi_legacy",   format |-> "text"],
       [name |-> "Body",         key |-> "body",         format |-> "text"],
       [name |-> "Name",         key |-> "name",         format |-> "text"],
       [name |-> "Icon",         key |-> "cover_icon",   format |-> "files"],
       [name |-> "Release Year", key |-> "release_year", format |-> "number"],
       [name |-> "Type",         key |-> "media_type",   format |-> "select"] >>

Pids == DOMAIN PropDecl

\* Type.properties of the two Type instances the caller holds
TypePool ==
    << TypeV("Article", "article", "s0", "tmplA", <<1, 2, 3, 4, 5>>),
       TypeV("Album", "album", "s0", "tmplB", <<6, 7>>) >>

\* Property: the value held for the property's format
Property_getattr(w, pid, format) == w.props[pid][format]

\* Property: store the value in the holder of the property's format
Property_setattr(w, pid, format, value) ==
    [w EXCEPT !.props[pid][format] = value]

\* Type._from_api(api, data): a Type built from a schema mapping
Type_from_api(data) ==
    TypeV("", data["key"].s[1],
          IF data["space_id"].s = <<>> THEN "" ELSE data["space_id"].s[1],
          "", <<>>)

\* Icon._update_with_json(data) on a new Icon: the emoji of the mapping
Icon_update_with_json(data) == data["emoji"]

(***************************************************************************)
(* object.py: class Object                                                 *)
(*                                                                         *)
(* An object is its instance dictionary (dict), with the three entries     *)
(* __init__ builds from the type kept apart: properties, _custom_setters   *)
(* and _custom_getters.  ctor remembers the type __init__ was given.       *)
(* The Icon() an object makes for itself is icons[o]; the Icon instances   *)
(* the caller holds come after those.                                      *)
(***************************************************************************)
\* the attributes type(self) has: the two properties and the methods
ClassProperties == { "type", "icon" }

ClassMethods ==
    { "add_type", "add_title1", "add_title2", "add_title3", "add_text",
      "add_codeblock", "add_bullet", "add_checkbox", "add_image" }

\* hasattr(type(self), name)
hasattr_class(name) == name \in ClassProperties \cup ClassMethods

notoverdrive == { "icon", "type" }

\* sanitize_property_name(prop.name)
class_prop(pid) == Str(sanitize_property_name(Chars(PropDecl[pid].name)))

\* a slip: the filter on the system relations is forgotten
init_properties_unfiltered(type) ==
    IF type.t = "Type" THEN type.properties ELSE <<>>

\* lines 45-49: the properties of the type whose key is not a system relation
init_properties(type) ==
    IF type.t = "Type"
    THEN SelectSeq(type.properties,
                   LAMBDA pid : PropDecl[pid].key \notin ANYTYPE_SYSTEM_RELATIONS)
    ELSE <<>>

\* lines 63-77: the places of self.properties that register an alias
init_registered(properties) ==
    { i \in DOMAIN properties : class_prop(properties[i]) \notin notoverdrive }

\* Object.__init__(name, type), the Icon() of the object being icons[own]
Object_init(name, type, own) ==
    LET properties == init_properties(type)
        registered == init_registered(properties)
        aliases    == { class_prop(properties[i]) : i \in registered }
        fields ==
            [ n \in { "_apiEndpoints", "_icon", "_values", "id", "source",
                      "name", "body", "description", "details", "layout",
                      "root_id", "space_id", "template_id", "snippet",
                      "type_key" } |->
                CASE n = "_apiEndpoints" -> NoneV
                  [] n = "_icon"         -> IconV(own)
                  [] n = "_values"       -> DictV(<<>>)
                  [] n = "name"          -> name
                  [] n = "details"       -> ListV
                  [] n = "layout"        -> StrV(<<"basic">>)
                  [] OTHER               -> StrV(<<>>) ]
    IN  [ dict |-> IF type.t = "Type" THEN Put(fields, "_type", type) ELSE fields,
          properties |-> properties,
          custom_setters |-> [a \in aliases |-> a],
          \* a later property of the same alias replaces the earlier entry
          custom_getters |->
              [a \in aliases |->
                  LET at == { i \in registered : class_prop(properties[i]) = a }
                  IN  properties[CHOOSE i \in at : \A j \in at : j <= i]],
          \* history: the type given, the body builders called since the body
          \* was last assigned, and the body then
          ctor |-> type,
          calls |-> <<>>,
          start |-> StrV(<<>>) ]

\* the outcome of reading an attribute
Returned(value) == [kind |-> "ok", value |-> value]

AttributeError == [kind |-> "AttributeError", value |-> NoneV]

RecursionError == [kind |-> "RecursionError", value |-> NoneV]

RECURSIVE getattr(_, _, _, _)
RECURSIVE Object_getattr(_, _, _, _)

\* the getters of the two properties: self._type, self._icon
property_get(w, o, name, depth) ==
    getattr(w, o, IF name = "type" THEN "_type" ELSE "_icon", depth + 1)

\* getattr(self, name): the class's properties, then the instance dictionary,
\* then the class's methods; __getattr__ when that ends in AttributeError
getattr(w, o, name, depth) ==
    IF depth > MaxDepth THEN RecursionError
    ELSE LET self == w.objs[o]
             found ==
                 IF name \in ClassProperties THEN property_get(w, o, name, depth)
                 ELSE IF name \in DOMAIN self.dict THEN Returned(self.dict[name])
                 ELSE IF name \in ClassMethods THEN Returned(MethodV(name))
                 ELSE AttributeError
         IN  IF found.kind = "AttributeError"
             THEN Object_getattr(w, o, name, depth + 1)
             ELSE found

\* Object.__getattr__(self, name)
Object_getattr(w, o, name, depth) ==
    IF depth > MaxDepth THEN RecursionError
    ELSE LET self == w.objs[o]
         IN  IF name \in DOMAIN self.custom_getters
             THEN LET pid == self.custom_getters[name]
                  IN  Returned(Property_getattr(w, pid, PropDecl[pid].format))
             ELSE IF hasattr_class(name) THEN getattr(w, o, name, depth + 1)
             ELSE IF name \in DOMAIN self.dict THEN Returned(self.dict[name])
             ELSE AttributeError

\* the emoji pattern: the ranges of its character class, as code points
emoji_ranges ==
    << <<128512, 128591>>, <<127744, 128511>>, <<128640, 128767>>,
       <<127456, 127487>>, <<9986, 10160>>, <<9410, 127569>> >>

in_emoji_class(c) ==
    \E i \in DOMAIN emoji_ranges : emoji_ranges[i][1] <= c /\ c <= emoji_ranges[i][2]

\* emoji_pattern.fullmatch(value): one or more characters of the class
emoji_fullmatch(value) ==
    Len(value) >= 1 /\ \A i \in DOMAIN value : in_emoji_class(value[i])

Raise(w, e) == [w EXCEPT !.exc = e]

RECURSIVE Object_setattr(_, _, _, _)

\* type.setter
type_setter(w, o, value) ==
    IF value.t = "dict"
    THEN Object_setattr(w, o, "_type",
             Type_from_api(dict_or(value.d,
                 [k \in {"space_id"} |-> getattr(w, o, "space_id", 0).value])))
    ELSE IF value.t = "Type" THEN Object_setattr(w, o, "_type", value)
    ELSE Raise(w, "Invalid type")

\* icon.setter; an emoji is a str of code points
icon_setter(w, o, value) ==
    IF value.t = "dict"
    THEN \* a new Icon; the one the object made for itself is its to replace
         LET made == [w EXCEPT !.icons[o] = Icon_update_with_json(value.d)]
         IN  Object_setattr(made, o, "_icon", IconV(o))
    ELSE IF value.t = "str"
    THEN IF emoji_fullmatch(value.s)
         THEN LET held == getattr(w, o, "_icon", 0).value
              IN  [w EXCEPT !.icons[held.icon] = value.s]
         ELSE Raise(w, "Invalid icon format")
    ELSE IF value.t = "Icon" THEN Object_setattr(w, o, "_icon", value)
    ELSE Raise(w, "Invalid icon format")

\* Object.__setattr__(self, name, value)
Object_setattr(w, o, name, value) ==
    LET self == w.objs[o]
    IN  IF name \in DOMAIN self.custom_setters
        THEN LET at == { i \in DOMAIN self.properties :
                           class_prop(self.properties[i]) = name }
             IN  IF at # {}
                 THEN LET pid == self.properties[CHOOSE i \in at : \A j \in at : i <= j]
                      IN  Property_setattr(w, pid, PropDecl[pid].format, value)
                 ELSE Raise(w, "AttributeError")
        ELSE IF name \in ClassProperties
        THEN IF name = "type" THEN type_setter(w, o, value)
                              ELSE icon_setter(w, o, value)
        ELSE [w EXCEPT !.objs[o].dict = Put(@, name, value)]

\* self.body += fragment
body_append(w, o, fragment) ==
    Object_setattr(w, o, "body",
                   StrV(getattr(w, o, "body", 0).value.s \o fragment))

\* the f-strings of the body builders, as their pieces
title1_fragment(text) == <<"# ", text, "\n">>

title2_fragment(text) == <<"## ", text, "\n">>

title3_fragment(text) == <<"### ", text, "\n">>

text_fragment(text) == <<text, "\n">>

\* three grave accents (a character the strings of this notation cannot hold)
Fence == "[fence]"

codeblock_fragment(code, language) ==
    <<Fence, " ", language, "\n", code, "\n", Fence, "\n">>

bullet_fragment(text) == <<"- ", text, "\n">>

checkbox_fragment(text, checked) ==
    IF checked THEN <<"- [x] ", text, "\n">> ELSE <<"- [ ] ", text, "\n">>

image_fragment(image_url, alt, title) ==
    IF title # ""
    THEN <<"![", alt, "](", image_url, " \"", title, "\")\n">>
    ELSE <<"![", alt, "](", image_url, ")\n">>

\* Object.add_type(type)
add_type(w, o, type) ==
    Object_setattr(Object_setattr(w, o, "template_id", StrV(<<type.template_id>>)),
                   o, "type_key", StrV(<<type.key>>))

(***************************************************************************)
(* State, and what the caller does with an object.                         *)
(*                                                                         *)
(* objs[o] is an object, props the values the Property instances hold,     *)
(* icons the emoji of the Icon instances, last a record of the last        *)
(* operation (history, read by the properties only).                       *)
(***************************************************************************)
World == [objs |-> objs, props |-> props, icons |-> icons, exc |-> "none"]

Commit(w) ==
    /\ objs' = w.objs
    /\ props' = w.props
    /\ icons' = w.icons

\* the type __init__ is given: none, or one of the caller's Type instances
CtorType(i) == IF i = 0 THEN NoneV ELSE TypePool[i]

\* n objects after construction, each with its own Icon(), and one more Icon
\* instance in the caller's hands
Constructed(n) ==
    /\ \E ctor \in [1..n -> 0..Len(TypePool)] :
           objs = [o \in 1..n |->
                      Object_init(StrV(<<>>), CtorType(ctor[o]), o)]
    /\ props = [pid \in Pids |-> [f \in {PropDecl[pid].format} |-> NoneV]]
    /\ icons = [i \in 1..(n + 1) |-> <<>>]
    /\ last = [op |-> "init", obj |-> 0]
    /\ label = <<>>
    /\ sanitized = <<>>
    /\ resanitized = <<>>

CallerIcon == Len(objs) + 1

SanUnchanged == UNCHANGED <<label, sanitized, resanitized>>

\* what can be read from an object: its aliases, its icon's emoji, its body
Observable(o) ==
    [ aliases |-> [a \in DOMAIN objs[o].custom_getters |-> getattr(World, o, a, 0)],
      emoji   |-> icons[getattr(World, o, "icon", 0).value.icon],
      body    |-> getattr(World, o, "body", 0) ]

\* obj.<name> = value
SetAttr(o, name, value) ==
    LET w == Object_setattr(World, o, name, value)
    IN  /\ Commit(IF name = "body" /\ w.exc = "none"
                  THEN [w EXCEPT !.objs[o].calls = <<>>,
                                 !.objs[o].start = getattr(w, o, "body", 0).value]
                  ELSE w)
        /\ last' = [op |-> "setattr", obj |-> o, name |-> name,
                    value |-> value, exc |-> w.exc,
                    others |-> [x \in DOMAIN objs |-> Observable(x)]]
        /\ SanUnchanged

\* obj.<name>
GetAttr(o, name) ==
    LET r == getattr(World, o, name, 0)
    IN  /\ last' = [op |-> "getattr", obj |-> o, name |-> name,
                    kind |-> r.kind, value |-> r.value,
                    wrote |-> IF /\ last.op = "setattr"
                                 /\ last.obj = o
                                 /\ last.name = name
                                 /\ last.exc = "none"
                              THEN <<last.value>>
                              ELSE <<>>]
        /\ UNCHANGED <<objs, props, icons>>
        /\ SanUnchanged

\* obj.type = value
TypeAssign(o, value) ==
    LET w == Object_setattr(World, o, "type", value)
    IN  /\ Commit(w)
        /\ last' = [op |-> "type=", obj |-> o, value |-> value, exc |-> w.exc,
                    space |-> getattr(World, o, "space_id", 0).value]
        /\ SanUnchanged

\* obj.add_type(type)
AddType(o, type) ==
    /\ Commit(add_type(World, o, type))
    /\ last' = [op |-> "add_type", obj |-> o, value |-> type]
    /\ SanUnchanged

\* obj.icon = value
IconAssign(o, value) ==
    LET w == Object_setattr(World, o, "icon", value)
    IN  /\ Commit(w)
        /\ last' = [op |-> "icon=", obj |-> o, value |-> value, exc |-> w.exc,
                    before |-> Observable(o).emoji,
                    others |-> [x \in DOMAIN objs |-> Observable(x)]]
        /\ SanUnchanged

\* one call of a body builder: the fragment is appended and the call noted
Builder(o, op, args, fragment) ==
    /\ Len(objs[o].calls) < MaxCalls
    /\ LET w == body_append(World, o, fragment)
       IN  Commit([w EXCEPT !.objs[o].calls =
                                Append(@, [op |-> op, args |-> args])])
    /\ last' = [op |-> op, obj |-> o, args |-> args,
                before |-> getattr(World, o, "body", 0).value,
                others |-> [x \in DOMAIN objs |-> Observable(x)]]
    /\ SanUnchanged

Add_title1(o, text) == Builder(o, "add_title1", <<text>>, title1_fragment(text))

Add_title2(o, text) == Builder(o, "add_title2", <<text>>, title2_fragment(text))

Add_title3(o, text) == Builder(o, "add_title3", <<text>>, title3_fragment(text))

Add_text(o, text) == Builder(o, "add_text", <<text>>, text_fragment(text))

Add_codeblock(o, code, language) ==
    Builder(o, "add_codeblock", <<code, language>>,
            codeblock_fragment(code, language))

Add_bullet(o, text) == Builder(o, "add_bullet", <<text>>, bullet_fragment(text))

Add_checkbox(o, text, checked) ==
    Builder(o, "add_checkbox", <<text, IF checked THEN "True" ELSE "False">>,
            checkbox_fragment(text, checked))

Add_image(o, image_url, alt, title) ==
    Builder(o, "add_image", <<image_url, alt, title>>,
            image_fragment(image_url, alt, title))

(***************************************************************************)
(* The inputs.                                                             *)
(***************************************************************************)
Values == { StrV(<<"1994">>), StrV(<<"x">>) }

WriteNames == { "doi", "body", "release_year", "name", "nosuch" }

ReadNames == WriteNames \cup { "type", "icon", "add_text" }

Texts == { "Hi", "x" }

Spaces == { StrV(<<>>), StrV(<<"s2">>) }

TypeInputs ==
    << TypePool[1], TypePool[2],
       DictV([key |-> StrV(<<"page">>), space_id |-> StrV(<<"s1">>),
              properties |-> ListV]),
       DictV([key |-> StrV(<<"page">>), properties |-> ListV]),
       IntV(42) >>

\* "A", an ideograph (U+4E2D) and the books emoji (U+1F4DA)
IconChars == { 65, 20013, 128218 }

IconStrings == { StrV(cs) : cs \in SeqsUpTo(IconChars, MaxIconLen) }

IconOthers == << DictV([emoji |-> <<128218>>]), IconV(CallerIcon), IntV(42) >>

(***************************************************************************)
(* Attribute access on one object.                                         *)
(***************************************************************************)
AttrInit == Constructed(1)

AttrWrite ==
    \E o \in DOMAIN objs, name \in WriteNames, value \in Values :
        SetAttr(o, name, value)

AttrRead == \E o \in DOMAIN objs, name \in ReadNames : GetAttr(o, name)

AttrNext == AttrWrite \/ AttrRead

AttrSpec == AttrInit /\ [][AttrNext]_vars

(***************************************************************************)
(* Type assignment on one object.                                          *)
(***************************************************************************)
TypeInit == Constructed(1)

TypeSet == \E o \in DOMAIN objs, i \in DOMAIN TypeInputs : TypeAssign(o, TypeInputs[i])

TypeAdd == \E o \in DOMAIN objs, i \in DOMAIN TypePool : AddType(o, TypePool[i])

SpaceSet == \E o \in DOMAIN objs, space \in Spaces : SetAttr(o, "space_id", space)

TypeNext == TypeSet \/ TypeAdd \/ SpaceSet

TypeSpec == TypeInit /\ [][TypeNext]_vars

(***************************************************************************)
(* The body builders on one object.                                        *)
(***************************************************************************)
BodyInit == Constructed(1)

CallTitle1 == \E o \in DOMAIN objs, text \in Texts : Add_title1(o, text)

CallTitle2 == \E o \in DOMAIN objs, text \in Texts : Add_title2(o, text)

CallTitle3 == \E o \in DOMAIN objs, text \in Texts : Add_title3(o, text)

CallText == \E o \in DOMAIN objs, text \in Texts : Add_text(o, text)

CallCodeblock ==
    \E o \in DOMAIN objs, code \in Texts, language \in {"", "py"} :
        Add_codeblock(o, code, language)

CallBullet == \E o \in DOMAIN objs, text \in Texts : Add_bullet(o, text)

CallCheckbox ==
    \E o \in DOMAIN objs, text \in Texts, checked \in BOOLEAN :
        Add_checkbox(o, text, checked)

CallImage ==
    \E o \in DOMAIN objs, alt \in {"", "Hi"}, title \in {"", "x"} :
        Add_image(o, "u", alt, title)

BodySet == \E o \in DOMAIN objs : SetAttr(o, "body", StrV(<<"intro">>))

BodyNext ==
    \/ CallTitle1 \/ CallTitle2 \/ CallTitle3 \/ CallText \/ CallCodeblock
    \/ CallBullet \/ CallCheckbox \/ CallImage \/ BodySet

BodySpec == BodyInit /\ [][BodyNext]_vars

(***************************************************************************)
(* Icon assignment on one object.                                          *)
(***************************************************************************)
IconInit == Constructed(1)

IconSetStr == \E o \in DOMAIN objs, value \in IconStrings : IconAssign(o, value)

IconSetOther ==
    \E o \in DOMAIN objs, i \in DOMAIN IconOthers : IconAssign(o, IconOthers[i])

IconNext == IconSetStr \/ IconSetOther

IconSpec == IconInit /\ [][IconNext]_vars

(***************************************************************************)
(* Two objects of one caller.                                              *)
(***************************************************************************)
ShareInit == Constructed(2)

ShareWrite ==
    \E o \in DOMAIN objs :
        \E name \in DOMAIN objs[o].custom_setters :
            SetAttr(o, name, StrV(<<"1994">>))

ShareEmoji == \E o \in DOMAIN objs : IconAssign(o, StrV(<<128218>>))

ShareIcon == \E o \in DOMAIN objs : IconAssign(o, IconV(CallerIcon))

ShareText == \E o \in DOMAIN objs : Add_text(o, "x")

ShareNext == ShareWrite \/ ShareEmoji \/ ShareIcon \/ ShareText

ShareSpec == ShareInit /\ [][ShareNext]_vars

(***************************************************************************)
(* sanitize_property_name on the labels.                                   *)
(***************************************************************************)
Alphabet == { "a", "s", "A", "1", "_", " ", "É" }

Labels ==
    SeqsUpTo(Alphabet, MaxLabelLen) \cup kwlist
        \cup { str_lower(k) : k \in kwlist }
        \cup { Chars(s) : s \in DOMAIN Spelling }

SanInit ==
    /\ label \in Labels
    /\ sanitized = <<>>
    /\ resanitized = <<>>
    /\ objs = <<>>
    /\ props = <<>>
    /\ icons = <<>>
    /\ last = [op |-> "init", obj |-> 0]

\* sanitized = <<s>> once sanitize_property_name(label) has returned s
Sanitize ==
    /\ sanitized = <<>>
    /\ sanitized' = <<sanitize_property_name(label)>>
    /\ UNCHANGED <<label, resanitized, objs, props, icons, last>>

\* the result is sanitized again
SanitizeAgain ==
    /\ sanitized # <<>>
    /\ resanitized = <<>>
    /\ resanitized' = <<sanitize_property_name(sanitized[1])>>
    /\ UNCHANGED <<label, sanitized, objs, props, icons, last>>

SanNext == Sanitize \/ SanitizeAgain

SanSpec == SanInit /\ [][SanNext]_vars

(***************************************************************************)
(* The properties.                                                         *)
(***************************************************************************)
\* the fixed attributes of an object (__init__, lines 33-56, and the two
\* properties of the class)
FixedAttributes ==
    { "id", "source", "name", "description", "body", "layout", "icon",
      "type", "details", "properties", "root_id", "space_id", "template_id",
      "snippet", "type_key" }

Body(o) == getattr(World, o, "body", 0)

\* C1: a value written through a registered alias is the value the next read
\* of that alias returns
C1_AliasRoundTrip ==
    ( /\ last.op = "getattr"
      /\ last.wrote # <<>>
      /\ last.name \in DOMAIN objs[last.obj].custom_setters )
    => /\ last.kind = "ok"
       /\ last.value.t = last.wrote[1].t
       /\ last.value = last.wrote[1]

\* C2: no registered alias is the name of a fixed attribute, and an
\* assignment to a fixed attribute changes that attribute
C2_FixedAttributesWin ==
    /\ \A o \in DOMAIN objs :
           DOMAIN objs[o].custom_setters \cap FixedAttributes = {}
    /\ ( last.op = "setattr" /\ last.name \in FixedAttributes )
       => /\ last.exc = "none"
          /\ getattr(World, last.obj, last.name, 0).kind = "ok"
          /\ getattr(World, last.obj, last.name, 0).value = last.value

\* the fragment a call of a body builder is to append
ExpectedFragment(call) ==
    CASE call.op = "add_title1" -> <<"# ", call.args[1], "\n">>
      [] call.op = "add_title2" -> <<"## ", call.args[1], "\n">>
      [] call.op = "add_title3" -> <<"### ", call.args[1], "\n">>
      [] call.op = "add_text" -> <<call.args[1], "\n">>
      [] call.op = "add_codeblock" ->
            <<Fence, " ", call.args[2], "\n", call.args[1], "\n", Fence, "\n">>
      [] call.op = "add_bullet" -> <<"- ", call.args[1], "\n">>
      [] call.op = "add_checkbox" ->
            <<IF call.args[2] = "True" THEN "- [x] " ELSE "- [ ] ",
              call.args[1], "\n">>
      [] call.op = "add_image" ->
            IF call.args[3] # ""
            THEN <<"![", call.args[2], "](", call.args[1], " \"", call.args[3],
                   "\")\n">>
            ELSE <<"![", call.args[2], "](", call.args[1], ")\n">>

RECURSIVE ExpectedBody(_, _)
ExpectedBody(start, calls) ==
    IF calls = <<>> THEN start
    ELSE ExpectedBody(start \o ExpectedFragment(Head(calls)), Tail(calls))

IsPrefix(s, t) == Len(s) <= Len(t) /\ SubSeq(t, 1, Len(s)) = s

BuilderOps ==
    { "add_title1", "add_title2", "add_title3", "add_text", "add_codeblock",
      "add_bullet", "add_checkbox", "add_image" }

\* C3: the body is the body before the builder calls followed by the
\* fragments of the calls in call order; the body before a call is a prefix
\* of the body after it; add_title1("Hi") then add_bullet("x") on an empty
\* body gives "# Hi\n- x\n"
C3_BodyIsConcatenation ==
    /\ \A o \in DOMAIN objs :
           /\ Body(o).kind = "ok"
           /\ Body(o).value.t = "str"
           /\ Body(o).value.s = ExpectedBody(objs[o].start.s, objs[o].calls)
           /\ ( /\ objs[o].start.s = <<>>
                /\ objs[o].calls = << [op |-> "add_title1", args |-> <<"Hi">>],
                                      [op |-> "add_bullet", args |-> <<"x">>] >> )
              => Body(o).value.s = <<"# ", "Hi", "\n", "- ", "x", "\n">>
    /\ last.op \in BuilderOps => IsPrefix(last.before.s, Body(last.obj).value.s)

\* C4 as stated: a label that starts with a digit or is a reserved keyword
\* is sanitized to a name that starts with an underscore
C4_KeywordOrDigitPrefixed ==
    ( /\ sanitized # <<>>
      /\ label # <<>>
      /\ (label[1] \in Digits \/ label \in kwlist) )
    => Head(sanitized[1]) = "_"

\* C4 as amended: a label that starts with a digit, or whose lower-case form
\* is a reserved keyword, is sanitized to a name that starts with an
\* underscore
C4_LoweredKeywordOrDigitPrefixed ==
    ( /\ sanitized # <<>>
      /\ label # <<>>
      /\ (label[1] \in Digits \/ str_lower(label) \in kwlist) )
    => Head(sanitized[1]) = "_"

C4_Witness ==
    /\ label = <<"A", "s">>
    /\ sanitized = << <<"_", "a", "s">> >>

\* C5: sanitizing a sanitized name returns it unchanged
C5_Idempotent ==
    resanitized # <<>> => resanitized[1] = sanitized[1]

C5_Witness ==
    /\ label = <<"c", "l", "a", "s", "s">>
    /\ sanitized = << <<"_", "c", "l", "a", "s", "s">> >>
    /\ resanitized = << <<"_", "c", "l", "a", "s", "s">> >>

AssignedMapping ==
    /\ last.op = "type="
    /\ last.value.t = "dict"

\* C6 as stated: assigning a schema mapping that carries a space identifier
\* succeeds and the type is then a Type bound to that space
C6_BoundToMappingSpace ==
    ( AssignedMapping /\ "space_id" \in DOMAIN last.value.d )
    => /\ last.exc = "none"
       /\ getattr(World, last.obj, "type", 0).kind = "ok"
       /\ getattr(World, last.obj, "type", 0).value.t = "Type"
       /\ getattr(World, last.obj, "type", 0).value.space_id
              = last.value.d["space_id"].s[1]

\* C6 as amended: assigning a schema mapping succeeds and the type is then a
\* Type bound to the space the object had at the assignment
C6_BoundToObjectSpace ==
    ( AssignedMapping /\ "_type" \notin DOMAIN objs[last.obj].custom_setters )
    => /\ last.exc = "none"
       /\ getattr(World, last.obj, "type", 0).kind = "ok"
       /\ getattr(World, last.obj, "type", 0).value.t = "Type"
       /\ getattr(World, last.obj, "type", 0).value.key = last.value.d["key"].s[1]
       /\ StrV(IF getattr(World, last.obj, "type", 0).value.space_id = ""
               THEN <<>>
               ELSE <<getattr(World, last.obj, "type", 0).value.space_id>>)
              = last.space

C6_Witness ==
    /\ AssignedMapping
    /\ "space_id" \in DOMAIN last.value.d
    /\ last.value.d["space_id"] = StrV(<<"s1">>)
    /\ last.space = StrV(<<"s2">>)
    /\ last.exc = "none"
    /\ getattr(World, last.obj, "type", 0).value.space_id = "s2"

\* the icon strings the claim accepts: one character of the emoticons, the
\* symbols and pictographs, the transport symbols, the flags, the dingbats
\* or the two enclosed characters
EmojiBlocks ==
    << <<128512, 128591>>, <<127744, 128511>>, <<128640, 128767>>,
       <<127456, 127487>>, <<9986, 10160>>, <<9410, 9410>>, <<127569, 127569>> >>

IsSingleEmoji(cs) ==
    /\ Len(cs) = 1
    /\ \E i \in DOMAIN EmojiBlocks :
           EmojiBlocks[i][1] <= cs[1] /\ cs[1] <= EmojiBlocks[i][2]

\* C7: a string is accepted as an icon exactly when it is a single emoji;
\* any other string fails with invalid-icon and leaves the icon unchanged
C7_SingleEmojiOnly ==
    ( last.op = "icon=" /\ last.value.t = "str" )
    => /\ (last.exc = "none") <=> IsSingleEmoji(last.value.s)
       /\ last.exc # "none"
          => /\ last.exc = "Invalid icon format"
             /\ Observable(last.obj).emoji = last.before

\* a name that an alias, a core attribute holding a value, an instance
\* field or a method of the class resolves
Resolvable(o, name) ==
    \/ name \in DOMAIN objs[o].custom_getters
    \/ name = "type" /\ "_type" \in DOMAIN objs[o].dict
    \/ name = "icon" /\ "_icon" \in DOMAIN objs[o].dict
    \/ name \notin ClassProperties /\ name \in DOMAIN objs[o].dict
    \/ name \in ClassMethods

\* C8: a read returns a value or fails with attribute-not-found, and fails
\* so whenever the name cannot be resolved
C8_NotFoundOnly ==
    last.op = "getattr"
    => /\ last.kind \in { "ok", "AttributeError" }
       /\ ~Resolvable(last.obj, last.name) => last.kind = "AttributeError"

\* C9: an operation on one object changes nothing that can be read from
\* another
C9_NoSharedState ==
    last.op \in { "setattr", "icon=" } \cup BuilderOps
    => \A o \in DOMAIN objs \ { last.obj } : Observable(o) = last.others[o]

\* the aliases of a type: its properties whose key is not a system relation,
\* sanitized, but for icon and type
AliasesOf(type) ==
    IF type.t = "Type"
    THEN { class_prop(type.properties[i]) :
             i \in { j \in DOMAIN type.properties :
                       PropDecl[type.properties[j]].key
                           \notin ANYTYPE_SYSTEM_RELATIONS } } \ { "icon", "type" }
    ELSE {}

\* C10 as stated: the forwarding table holds the aliases of the type that is
\* currently assigned
C10_TableFollowsAssignedType ==
    \A o \in DOMAIN objs :
        DOMAIN objs[o].custom_setters =
            AliasesOf(IF "_type" \in DOMAIN objs[o].dict
                      THEN objs[o].dict["_type"] ELSE NoneV)

\* C10 as amended: the forwarding table holds the aliases of the type the
\* object was constructed with, whatever is assigned later
C10_TableFollowsConstructionType ==
    \A o \in DOMAIN objs :
        /\ DOMAIN objs[o].custom_setters = AliasesOf(objs[o].ctor)
        /\ DOMAIN objs[o].custom_getters = AliasesOf(objs[o].ctor)

C10_Witness ==
    /\ last.op = "type="
    /\ last.exc = "none"
    /\ objs[last.obj].ctor.t = "Type"
    /\ objs[last.obj].dict["_type"].key # objs[last.obj].ctor.key
    /\ DOMAIN objs[last.obj].custom_setters = { "doi", "body" }

====
